---- MODULE Spec2Model ----
(***************************************************************************)
(* Model of the two reporting scripts of EuropeanEnergyAnalysis:           *)
(*   src/src/power_generation/ENTSOE_EuropeanEnergyBySource.py             *)
(*   src/src/power_plants/renewable_map.py                                 *)
(*                                                                         *)
(* A table (pandas DataFrame) is a record                                  *)
(*   [columns |-> sequence of labels, data |-> one sequence of cells per   *)
(*    column, n |-> number of rows]                                        *)
(* and a row position 1..n stands for the timestamp of that row.  A cell   *)
(* is a natural number of MW, or NaN for a sample the API left missing.    *)
(* Arithmetic is exact: floating-point rounding is not modelled.           *)
(***************************************************************************)
EXTENDS Integers, Sequences, FiniteSets, TLC

VARIABLES
    pc,             \* position of main(): "mkdir", "loop", "unpack", "branch", "done",
                    \* "exited" (sys.exit), "crashed" (uncaught exception); "idle" when main is not run
    i,              \* position of the for loop in countries
    exitStatus,     \* exit status of the process once it has ended, NoStatus before
    mkdirFailed,    \* output_path.mkdir raised in main
    ret,            \* tuple returned by the last analyze_country call
    probeResp,      \* what the API answered to the last 30-day probe
    latest,         \* what the last find_latest_data_date call returned
    window,         \* <<start, end>> of the last analysis query, <<>> when none was made
    outcome,        \* per country: how far analyze_country got
    nIssues,        \* per country: number of issues check_data_quality reported
    plotted,        \* countries create_generation_plot was called for
    results,        \* keys of the results mapping of main
    images,         \* countries whose chart file was written
    stage,          \* position inside the body of analyze_country / load_and_filter_data
    df_gen,         \* raw Generation Series (df_gen of analyze_country)
    df_agg,         \* Aggregated Series
    df_share,       \* Share Series
    stats,          \* Statistics Summary
    quality_issues, \* list returned by check_data_quality
    plants,         \* plant table read by load_and_filter_data
    renewable_plants \* table returned by load_and_filter_data

vars == <<pc, i, exitStatus, mkdirFailed, ret, probeResp, latest, window, outcome,
          nIssues, plotted, results, images, stage, df_gen, df_agg, df_share, stats,
          quality_issues, plants, renewable_plants>>

mainVars == <<pc, i, exitStatus, mkdirFailed, ret, probeResp, latest, window, outcome,
              nIssues, plotted, results, images>>
dataVars == <<stage, df_gen, df_agg, df_share, stats, quality_issues>>
plantVars == <<plants, renewable_plants>>

----------------------------------------------------------------------------
(* Bounds of the model *)

MaxRows == 2
MaxVal == 1
MaxLag == 2
MaxPlants == 2

----------------------------------------------------------------------------
(* Values *)

NaN == 0 - 1
None == 0 - 1
NoStatus == 0 - 1
NoneStr == "None"

Range(s) == {s[k] : k \in 1..Len(s)}

RECURSIVE SumSeq(_)
SumSeq(s) == IF s = <<>> THEN 0 ELSE Head(s) + SumSeq(Tail(s))

EmptyTable == [columns |-> <<>>, data |-> <<>>, n |-> 0]

ColumnIndex(df, label) == CHOOSE j \in 1..Len(df.columns) : df.columns[j] = label

\* pandas Series + Series: a missing operand makes the result missing
Plus(a, b) == IF a = NaN \/ b = NaN THEN NaN ELSE a + b

\* DataFrame.sum(axis=1): missing cells are skipped, an all-missing row sums to 0
RowSum(df, t) == SumSeq([j \in 1..Len(df.columns) |->
                            IF df.data[j][t] = NaN THEN 0 ELSE df.data[j][t]])

----------------------------------------------------------------------------
(* EnergyDataAnalyzer *)

countries == <<"FR", "DE_LU", "IT", "ES">>

agg_map == <<
    [group_name |-> "Wind",
     source_list |-> <<"Wind Offshore", "Wind Onshore">>],
    [group_name |-> "Other Renewables",
     source_list |-> <<"Other renewable", "Waste", "Geothermal", "Biomass">>],
    [group_name |-> "Hydro",
     source_list |-> <<"Hydro Run-of-river and poundage", "Hydro Water Reservoir",
                       "Hydro Pumped Storage">>],
    [group_name |-> "Coal and Lignite",
     source_list |-> <<"Fossil Brown coal/Lignite", "Fossil Coal-derived gas",
                       "Fossil Hard coal">>] >>

\* the inner for loop of aggregate_sources: the first group whose list holds col
RECURSIVE found_group_from(_, _)
found_group_from(col, g) ==
    IF g > Len(agg_map) THEN NoneStr
    ELSE IF col \in Range(agg_map[g].source_list) THEN agg_map[g].group_name
    ELSE found_group_from(col, g + 1)

found_group_last(col) ==
    IF \E g \in 1..Len(agg_map) : col = agg_map[g].source_list[Len(agg_map[g].source_list)]
    THEN agg_map[CHOOSE g \in 1..Len(agg_map) :
                    col = agg_map[g].source_list[Len(agg_map[g].source_list)]].group_name
    ELSE NoneStr

found_group(col) == found_group_from(col, 1)

\* df_agg[label] = values
SetColumn(df, label, values) ==
    IF label \in Range(df.columns)
    THEN [df EXCEPT !.data[ColumnIndex(df, label)] = values]
    ELSE [df EXCEPT !.columns = Append(@, label), !.data = Append(@, values)]

\* df_agg[label] += values
AddColumn(df, label, values) ==
    LET old == df.data[ColumnIndex(df, label)]
    IN  SetColumn(df, label, [t \in 1..df.n |-> Plus(old[t], values[t])])

\* one iteration of the for loop over df_gen.columns
AggregateColumn(acc, col, values) ==
    LET group == found_group(col) IN
    IF group # NoneStr
    THEN LET zeroed == IF group \notin Range(acc.columns)
                       THEN SetColumn(acc, group, [t \in 1..acc.n |-> 0])
                       ELSE acc
         IN  AddColumn(zeroed, group, values)
    ELSE IF col \notin Range(acc.columns)
         THEN SetColumn(acc, col, values)
         ELSE AddColumn(acc, col, values)

RECURSIVE AggregateFrom(_, _, _)
AggregateFrom(gen, j, acc) ==
    IF j > Len(gen.columns) THEN acc
    ELSE AggregateFrom(gen, j + 1, AggregateColumn(acc, gen.columns[j], gen.data[j]))

aggregate_sources(gen) ==
    AggregateFrom(gen, 1, [columns |-> <<>>, data |-> <<>>, n |-> gen.n])

----------------------------------------------------------------------------
(* Shares: df_agg.div(total_gen, axis=0).fillna(0).  A share is an exact     *)
(* fraction num/den, or the float results nan and inf of a division by 0.  *)

Frac(a, b) == [kind |-> "num", num |-> a, den |-> b]
NanShare == [kind |-> "nan", num |-> 0, den |-> 1]
InfShare == [kind |-> "inf", num |-> 0, den |-> 1]

Div(x, total) ==
    IF x = NaN THEN NanShare
    ELSE IF total = 0 THEN (IF x = 0 THEN NanShare ELSE InfShare)
    ELSE Frac(x, total)

fillna_missing(s) == s

fillna(s) == IF s.kind = "nan" THEN Frac(0, 1) ELSE s

share_of(agg) ==
    [columns |-> agg.columns,
     data |-> [j \in 1..Len(agg.columns) |->
                  [t \in 1..agg.n |-> fillna(Div(agg.data[j][t], RowSum(agg, t)))]],
     n |-> agg.n]

----------------------------------------------------------------------------
(* calculate_statistics.  The mean is kept as the exact pair sum / count;   *)
(* daily_volatility (a standard deviation of daily means) is a float that  *)
(* no claim reads and is left out of the record.                           *)

Positions(n) == [t \in 1..n |-> t]

TotalGeneration(agg) == [t \in 1..agg.n |-> RowSum(agg, t)]

calculate_statistics(agg) ==
    LET total == TotalGeneration(agg)
        hi == CHOOSE v \in Range(total) : \A w \in Range(total) : w <= v
        lo == CHOOSE v \in Range(total) : \A w \in Range(total) : v <= w
    IN  [max_power_mw |-> hi,
         min_power_mw |-> lo,
         avg_power_sum |-> SumSeq(total),
         avg_power_count |-> agg.n,
         peak_hour |-> CHOOSE t \in 1..agg.n :
                          total[t] = hi /\ \A u \in 1..(t - 1) : total[u] # hi,
         trough_hour |-> CHOOSE t \in 1..agg.n :
                            total[t] = lo /\ \A u \in 1..(t - 1) : total[u] # lo]

NoStats == [max_power_mw |-> 0, min_power_mw |-> 0, avg_power_sum |-> 0,
            avg_power_count |-> 0, peak_hour |-> 0, trough_hour |-> 0]

----------------------------------------------------------------------------
(* check_data_quality.  total < mean * 0.2 with mean = sum / n is stated   *)
(* exactly as 5 * n * total < sum; the mean of an empty series is nan and  *)
(* compares false.  An issue is the record of what the issue string says:  *)
(* its kind, the source it names and the list of timestamps it lists.      *)

major_sources == <<"Fossil Gas", "Nuclear", "Coal and Lignite">>

LowIssue(periods) == [kind |-> "low", source |-> "", periods |-> periods]
ZeroIssue(source, periods) == [kind |-> "zero", source |-> source, periods |-> periods]

low_periods_le(agg) ==
    LET total == TotalGeneration(agg)
        IsLow(t) == agg.n > 0 /\ 5 * agg.n * total[t] <= SumSeq(total)
    IN  SelectSeq(Positions(agg.n), IsLow)

low_periods(agg) ==
    LET total == TotalGeneration(agg)
        IsLow(t) == agg.n > 0 /\ 5 * agg.n * total[t] < SumSeq(total)
    IN  SelectSeq(Positions(agg.n), IsLow)

zero_periods(agg, source) ==
    LET IsZero(t) == agg.data[ColumnIndex(agg, source)][t] = 0
    IN  SelectSeq(Positions(agg.n), IsZero)

RECURSIVE MajorIssuesFrom(_, _)
MajorIssuesFrom(agg, k) ==
    IF k > Len(major_sources) THEN <<>>
    ELSE LET source == major_sources[k]
             here == IF source \in Range(agg.columns) /\ zero_periods(agg, source) # <<>>
                     THEN <<ZeroIssue(source, zero_periods(agg, source))>>
                     ELSE <<>>
         IN  here \o MajorIssuesFrom(agg, k + 1)

check_data_quality(agg) ==
    (IF low_periods(agg) # <<>> THEN <<LowIssue(low_periods(agg))>> ELSE <<>>)
        \o MajorIssuesFrom(agg, 1)

----------------------------------------------------------------------------
(* Inputs of the data specification: Generation Series over a few column   *)
(* layouts with every combination of cell values, and the worked examples. *)

Vals == {NaN} \cup (0..MaxVal)

Layouts == {
    <<"Solar">>,
    <<"Nuclear">>,
    <<"Wind Onshore", "Wind Offshore">>,
    <<"Wind Offshore", "Nuclear">>,
    <<"Wind", "Wind Onshore">>,
    <<"Wind Offshore", "Wind">>,
    <<"Nuclear", "Fossil Gas">>,
    <<"Fossil Hard coal", "Fossil Brown coal/Lignite">>,
    <<"Fossil Gas", "Fossil Hard coal">>,
    <<"Hydro Pumped Storage", "Waste">> }

GenTables ==
    UNION { UNION { { [columns |-> cols, data |-> d, n |-> n] :
                        d \in [1..Len(cols) -> [1..n -> Vals]] } :
                    n \in 1..MaxRows } :
            cols \in Layouts }

\* spec.md section 8: {Wind Onshore: 10, Wind Offshore: 5, Nuclear: 100}
WindExample ==
    [columns |-> <<"Wind Onshore", "Wind Offshore", "Nuclear">>,
     data |-> << <<10>>, <<5>>, <<100>> >>, n |-> 1]

\* spec.md section 8: a total series with mean 100 and one sample at 15
LowExample ==
    [columns |-> <<"Nuclear", "Fossil Gas", "Solar">>,
     data |-> << <<15, 60, 100>>, <<0, 40, 50>>, <<0, 0, 35>> >>, n |-> 3]

MissingExample ==
    [columns |-> <<"Fossil Gas", "Wind Onshore", "Wind Offshore", "Fossil Hard coal">>,
     data |-> << <<40, 0>>, <<NaN, 7>>, <<5, 3>>, <<0, 0>> >>, n |-> 2]

ZeroExample ==
    [columns |-> <<"Solar", "Wind Onshore">>,
     data |-> << <<0, 20>>, <<0, 30>> >>, n |-> 2]

ExampleTables == {WindExample, LowExample, MissingExample, ZeroExample}

----------------------------------------------------------------------------
(* The body of the try block of analyze_country, one statement per step    *)

MainIdle ==
    /\ pc = "idle"
    /\ i = 0
    /\ exitStatus = NoStatus
    /\ mkdirFailed = FALSE
    /\ ret = <<>>
    /\ probeResp = [kind |-> "none", index |-> <<>>]
    /\ latest = [raised |-> FALSE, value |-> None]
    /\ window = <<>>
    /\ outcome = [c \in Range(countries) |-> "pending"]
    /\ nIssues = [c \in Range(countries) |-> 0]
    /\ plotted = {}
    /\ results = {}
    /\ images = {}

PlantsIdle ==
    /\ plants = <<>>
    /\ renewable_plants = <<>>

InitData ==
    /\ MainIdle
    /\ PlantsIdle
    /\ stage = "gen"
    /\ df_gen \in GenTables \cup ExampleTables
    /\ df_agg = EmptyTable
    /\ df_share = EmptyTable
    /\ stats = NoStats
    /\ quality_issues = <<>>

Aggregate ==
    /\ stage = "gen"
    /\ df_agg' = aggregate_sources(df_gen)
    /\ stage' = "agg"
    /\ UNCHANGED <<df_gen, df_share, stats, quality_issues>>
    /\ UNCHANGED mainVars
    /\ UNCHANGED plantVars

ComputeShare ==
    /\ stage = "agg"
    /\ df_share' = share_of(df_agg)
    /\ stage' = "share"
    /\ UNCHANGED <<df_gen, df_agg, stats, quality_issues>>
    /\ UNCHANGED mainVars
    /\ UNCHANGED plantVars

CalculateStatistics ==
    /\ stage = "share"
    /\ stats' = calculate_statistics(df_agg)
    /\ stage' = "stats"
    /\ UNCHANGED <<df_gen, df_agg, df_share, quality_issues>>
    /\ UNCHANGED mainVars
    /\ UNCHANGED plantVars

CheckQuality ==
    /\ stage = "stats"
    /\ quality_issues' = check_data_quality(df_agg)
    /\ stage' = "quality"
    /\ UNCHANGED <<df_gen, df_agg, df_share, stats>>
    /\ UNCHANGED mainVars
    /\ UNCHANGED plantVars

NextData == Aggregate \/ ComputeShare \/ CalculateStatistics \/ CheckQuality

SpecData == InitData /\ [][NextData]_vars

----------------------------------------------------------------------------
(* Claims about the data transformations, checked under SpecData           *)

Aggregated == stage \in {"agg", "share", "stats", "quality"}

\* C2: for every Generation Series and every timestamp, the row total of the
\* Aggregated Series equals the row total of the raw series (totals as the
\* program takes them, DataFrame.sum(axis=1)): no raw power is dropped or
\* counted twice.
C2_TotalConserved ==
    Aggregated => \A t \in 1..df_gen.n : RowSum(df_agg, t) = RowSum(df_gen, t)

\* the same conservation on the rows where no raw sample of the row is missing
C2_ConservedWhereComplete ==
    Aggregated =>
        \A t \in 1..df_gen.n :
            (\A j \in 1..Len(df_gen.columns) : df_gen.data[j][t] # NaN)
                => RowSum(df_agg, t) = RowSum(df_gen, t)

C2_DropsPower ==
    /\ Aggregated
    /\ \E t \in 1..df_gen.n : RowSum(df_agg, t) < RowSum(df_gen, t)

\* The category of a raw label as the claim states it: the group of least
\* position in the mapping whose list holds the label, else the label.
C3_Category(col) ==
    LET holds == {g \in 1..Len(agg_map) : col \in Range(agg_map[g].source_list)}
    IN  IF holds = {} THEN col
        ELSE agg_map[CHOOSE g \in holds : \A h \in holds : g <= h].group_name

\* the sum of the cells at timestamp t of the raw columns j..end assigned to
\* category, by Series addition
RECURSIVE C3_SumAssigned(_, _, _, _)
C3_SumAssigned(gen, category, t, j) ==
    IF j > Len(gen.columns) THEN 0
    ELSE IF C3_Category(gen.columns[j]) = category
         THEN Plus(gen.data[j][t], C3_SumAssigned(gen, category, t, j + 1))
         ELSE C3_SumAssigned(gen, category, t, j + 1)

Shared == stage \in {"share", "stats", "quality"}

FracAdd(a, b) == [num |-> a.num * b.den + b.num * a.den, den |-> a.den * b.den]

RECURSIVE FracSum(_)
FracSum(s) == IF s = <<>> THEN [num |-> 0, den |-> 1]
              ELSE FracAdd(Head(s), FracSum(Tail(s)))

ShareRow(t) == [j \in 1..Len(df_share.columns) |-> df_share.data[j][t]]

\* C4: every share is a finite number; a row whose total is not 0 has shares
\* summing to 1 and a row whose total is 0 has only zero shares.
C4_ShareRows ==
    Shared =>
        /\ df_share.columns = df_agg.columns
        /\ \A t \in 1..df_agg.n :
            /\ \A j \in 1..Len(df_share.columns) : df_share.data[j][t].kind = "num"
            /\ RowSum(df_agg, t) # 0 =>
                   FracSum(ShareRow(t)).num = FracSum(ShareRow(t)).den
            /\ RowSum(df_agg, t) = 0 =>
                   \A j \in 1..Len(df_share.columns) : df_share.data[j][t].num = 0

\* a table with a zero-total row, a row with total above zero and a missing cell
C4_Witness ==
    /\ Shared
    /\ \E t \in 1..df_agg.n : RowSum(df_agg, t) = 0
    /\ \E t \in 1..df_agg.n : RowSum(df_agg, t) > 0 /\ Len(df_agg.columns) > 1
    /\ \E t \in 1..df_agg.n : \E j \in 1..Len(df_agg.columns) : df_agg.data[j][t] = NaN

C7_LowSet == {t \in 1..df_agg.n : 5 * df_agg.n * RowSum(df_agg, t)
                                     < SumSeq([u \in 1..df_agg.n |-> RowSum(df_agg, u)])}

C7_ZeroSet(source) ==
    IF source \in Range(df_agg.columns)
    THEN {t \in 1..df_agg.n : df_agg.data[ColumnIndex(df_agg, source)][t] = 0}
    ELSE {}

C7_Issues(kind, source) ==
    {k \in 1..Len(quality_issues) :
        quality_issues[k].kind = kind /\ quality_issues[k].source = source}

C7_Lists(k, set) ==
    /\ Range(quality_issues[k].periods) = set
    /\ Len(quality_issues[k].periods) = Cardinality(set)

\* C7: the returned list holds a low-generation issue exactly when some row
\* total is strictly below 20% of the mean total, listing exactly those rows;
\* for each of Fossil Gas, Nuclear, Coal and Lignite it holds an issue exactly
\* when that column exists and reads 0 somewhere, listing exactly those rows;
\* and it holds nothing else.
C7_QualityIssues ==
    stage = "quality" =>
        /\ Cardinality(C7_Issues("low", "")) = (IF C7_LowSet = {} THEN 0 ELSE 1)
        /\ \A k \in C7_Issues("low", "") : C7_Lists(k, C7_LowSet)
        /\ \A src \in {"Fossil Gas", "Nuclear", "Coal and Lignite"} :
              /\ Cardinality(C7_Issues("zero", src)) = (IF C7_ZeroSet(src) = {} THEN 0 ELSE 1)
              /\ \A k \in C7_Issues("zero", src) : C7_Lists(k, C7_ZeroSet(src))
        /\ \A k \in 1..Len(quality_issues) :
              \/ k \in C7_Issues("low", "")
              \/ \E src \in {"Fossil Gas", "Nuclear", "Coal and Lignite"} :
                     k \in C7_Issues("zero", src)

\* the worked example: totals 15, 100, 185 (mean 100); the sample at 15 is
\* flagged, and Fossil Gas reads zero at that same timestamp
C7_Witness ==
    /\ stage = "quality"
    /\ df_gen = LowExample
    /\ quality_issues = <<LowIssue(<<1>>), ZeroIssue("Fossil Gas", <<1>>)>>

----------------------------------------------------------------------------
(* The generation reporter: find_latest_data_date, analyze_country, main.  *)
(* Timestamps are whole hours.  The API is the environment: each call      *)
(* either raises or answers a table.                                       *)

Hour == 1
Day == 24 * Hour
Now == 40 * Day

\* what client.query_generation answers to the 30-day probe: an exception, an
\* empty table, or samples whose last one lies lag hours before now
ProbeResponses ==
    {[kind |-> "raise", index |-> <<>>], [kind |-> "df", index |-> <<>>]}
        \cup {[kind |-> "df", index |-> <<Now - lag * Hour>>] : lag \in 0..MaxLag}
        \cup {[kind |-> "df", index |-> <<Now - (lag + 1) * Hour, Now - lag * Hour>>] :
                lag \in 0..MaxLag}

\* what it answers to the analysis query: an exception, or a table whose
\* columns carry the "Actual Aggregated" level (multi) or do not
QueryResponses ==
    {[kind |-> "raise", multi |-> FALSE, table |-> EmptyTable]}
        \cup {[kind |-> "df", multi |-> m, table |-> tab] :
                m \in BOOLEAN, tab \in ExampleTables \cup {EmptyTable}}

find_latest_data_date_uncaught(resp) ==
    IF resp.kind = "raise" THEN [raised |-> TRUE, value |-> None]
    ELSE IF resp.index # <<>> THEN [raised |-> FALSE, value |-> resp.index[Len(resp.index)]]
    ELSE [raised |-> FALSE, value |-> None]

find_latest_data_date(resp) ==
    IF resp.kind = "raise" THEN [raised |-> FALSE, value |-> None]
    ELSE IF resp.index # <<>> THEN [raised |-> FALSE, value |-> resp.index[Len(resp.index)]]
    ELSE [raised |-> FALSE, value |-> None]

analysis_window_from_now(latest_date) == <<Now - 10 * Day, Now + Hour>>

\* start and end of the analysis query
analysis_window(latest_date) == <<latest_date - 10 * Day, latest_date + Hour>>

returned_unless_issues(issues) ==
    IF issues # <<>> THEN <<NoneStr, NoneStr, NoneStr>> ELSE <<"df_agg", "df_share", "stats">>

\* lines 256-261: the issues are logged and the three results are returned
returned_after_quality(issues) == <<"df_agg", "df_share", "stats">>

NoData == [gen |-> EmptyTable, agg |-> EmptyTable, share |-> EmptyTable,
           stats |-> NoStats, issues |-> <<>>]

\* analyze_country: what it returns and the locals it leaves, given the two
\* answers of the API.  ret is the returned tuple, naming each element or None.
analyze_country(probe, query) ==
    LET latest_date == find_latest_data_date(probe) IN
    IF latest_date.raised
    THEN [raised |-> TRUE, probe |-> probe, latest |-> latest_date, window |-> <<>>, ret |-> <<>>,
          outcome |-> "propagated", data |-> NoData]
    ELSE IF latest_date.value = None
    THEN [raised |-> FALSE, probe |-> probe, latest |-> latest_date, window |-> <<>>,
          ret |-> <<NoneStr, NoneStr>>, outcome |-> "unavailable", data |-> NoData]
    ELSE LET w == analysis_window(latest_date.value) IN
         IF query.kind = "raise"
         THEN [raised |-> FALSE, probe |-> probe, latest |-> latest_date, window |-> w,
               ret |-> <<NoneStr, NoneStr, NoneStr>>, outcome |-> "raised", data |-> NoData]
         ELSE IF query.table.n = 0 \/ query.table.columns = <<>>
         THEN [raised |-> FALSE, probe |-> probe, latest |-> latest_date, window |-> w,
               ret |-> <<NoneStr, NoneStr>>, outcome |-> "empty", data |-> NoData]
         ELSE IF ~query.multi
         THEN [raised |-> FALSE, probe |-> probe, latest |-> latest_date, window |-> w,
               ret |-> <<NoneStr, NoneStr, NoneStr>>, outcome |-> "raised", data |-> NoData]
         ELSE LET gen == query.table
                  agg == aggregate_sources(gen)
                  share == share_of(agg)
                  st == calculate_statistics(agg)
                  issues == check_data_quality(agg)
              IN  [raised |-> FALSE, probe |-> probe, latest |-> latest_date, window |-> w,
                   ret |-> returned_after_quality(issues), outcome |-> "ok",
                   data |-> [gen |-> gen, agg |-> agg, share |-> share,
                             stats |-> st, issues |-> issues]]

Init ==
    /\ pc = "mkdir"
    /\ i = 1
    /\ exitStatus = NoStatus
    /\ mkdirFailed = FALSE
    /\ ret = <<>>
    /\ probeResp = [kind |-> "none", index |-> <<>>]
    /\ latest = [raised |-> FALSE, value |-> None]
    /\ window = <<>>
    /\ outcome = [c \in Range(countries) |-> "pending"]
    /\ nIssues = [c \in Range(countries) |-> 0]
    /\ plotted = {}
    /\ results = {}
    /\ images = {}
    /\ stage = "main"
    /\ df_gen = EmptyTable
    /\ df_agg = EmptyTable
    /\ df_share = EmptyTable
    /\ stats = NoStats
    /\ quality_issues = <<>>
    /\ PlantsIdle

\* main, lines 269-278: the output directory is created, or the process exits
MakeOutputDir ==
    /\ pc = "mkdir"
    /\ \E ok \in BOOLEAN :
        IF ok
        THEN /\ pc' = "loop"
             /\ UNCHANGED <<exitStatus, mkdirFailed>>
        ELSE /\ pc' = "exited"
             /\ exitStatus' = 1
             /\ mkdirFailed' = TRUE
    /\ UNCHANGED <<i, ret, probeResp, latest, window, outcome, nIssues, plotted, results, images>>
    /\ UNCHANGED dataVars
    /\ UNCHANGED plantVars

\* main, line 289, right-hand side: the call of analyze_country
AnalyzeCountry ==
    /\ pc = "loop"
    /\ i <= Len(countries)
    /\ \E r \in {analyze_country(probe, query) :
                    probe \in ProbeResponses, query \in QueryResponses} :
        /\ probeResp' = r.probe
        /\ latest' = r.latest
        /\ window' = r.window
        /\ ret' = r.ret
        /\ outcome' = [outcome EXCEPT ![countries[i]] = r.outcome]
        /\ nIssues' = [nIssues EXCEPT ![countries[i]] = Len(r.data.issues)]
        /\ df_gen' = r.data.gen
        /\ df_agg' = r.data.agg
        /\ df_share' = r.data.share
        /\ stats' = r.data.stats
        /\ quality_issues' = r.data.issues
        /\ pc' = IF r.raised THEN "crashed" ELSE "unpack"
        /\ exitStatus' = IF r.raised THEN 1 ELSE exitStatus
    /\ UNCHANGED <<i, mkdirFailed, plotted, results, images, stage>>
    /\ UNCHANGED plantVars

\* main, line 289, left-hand side: the returned tuple is unpacked into three
\* names; a tuple of another length raises ValueError, which nothing catches
Unpack ==
    /\ pc = "unpack"
    /\ IF Len(ret) = 3
       THEN pc' = "branch" /\ UNCHANGED exitStatus
       ELSE pc' = "crashed" /\ exitStatus' = 1
    /\ UNCHANGED <<i, mkdirFailed, ret, probeResp, latest, window, outcome, nIssues,
                   plotted, results, images>>
    /\ UNCHANGED dataVars
    /\ UNCHANGED plantVars

\* the end of one pass of the for loop: the names bound by the pass are
\* rebound by the next one, and the frame of analyze_country is gone
EndIteration ==
    /\ i' = i + 1
    /\ pc' = "loop"
    /\ ret' = <<>>
    /\ probeResp' = [kind |-> "none", index |-> <<>>]
    /\ latest' = [raised |-> FALSE, value |-> None]
    /\ window' = <<>>
    /\ df_gen' = EmptyTable
    /\ df_agg' = EmptyTable
    /\ df_share' = EmptyTable
    /\ stats' = NoStats
    /\ quality_issues' = <<>>

\* main, lines 291-300: the chart is rendered (the write may fail, which
\* create_generation_plot catches and reports as False) and the result is kept
PlotAndRecord ==
    /\ pc = "branch"
    /\ \A k \in 1..3 : ret[k] # NoneStr
    /\ \E saved \in BOOLEAN :
        /\ plotted' = plotted \cup {countries[i]}
        /\ images' = IF saved THEN images \cup {countries[i]} ELSE images
        /\ results' = results \cup {countries[i]}
    /\ EndIteration
    /\ UNCHANGED <<exitStatus, mkdirFailed, outcome, nIssues, stage>>
    /\ UNCHANGED plantVars

\* main, lines 301-302
SkipVisualization ==
    /\ pc = "branch"
    /\ \E k \in 1..3 : ret[k] = NoneStr
    /\ EndIteration
    /\ UNCHANGED <<exitStatus, mkdirFailed, outcome, nIssues, plotted, results, images, stage>>
    /\ UNCHANGED plantVars

\* the for loop is exhausted and main returns
Finish ==
    /\ pc = "loop"
    /\ i > Len(countries)
    /\ pc' = "done"
    /\ exitStatus' = 0
    /\ UNCHANGED <<i, mkdirFailed, ret, probeResp, latest, window, outcome, nIssues,
                   plotted, results, images>>
    /\ UNCHANGED dataVars
    /\ UNCHANGED plantVars

Next == MakeOutputDir \/ AnalyzeCountry \/ Unpack \/ PlotAndRecord \/ SkipVisualization \/ Finish

Spec == Init /\ [][Next]_vars

----------------------------------------------------------------------------
(* Claims about the generation reporter, checked under Spec                *)

Handled == {countries[k] : k \in 1..(i - 1)}

\* C1: a failure while one country is processed only skips that country: the
\* run does not abort, and when it ends every country has been analysed and
\* every country whose analysis succeeded has been plotted and recorded.
C1_CountryIsolation ==
    /\ pc # "crashed"
    /\ pc = "done" =>
          \A c \in Range(countries) :
              /\ outcome[c] # "pending"
              /\ outcome[c] = "ok" => c \in plotted /\ c \in results

\* the run has ended on the first country's unavailable probe, the other
\* three countries never analysed
C1_Aborted ==
    /\ pc = "crashed"
    /\ outcome["FR"] = "unavailable"
    /\ \A c \in {"DE_LU", "IT", "ES"} : outcome[c] = "pending"

\* C5: find_latest_data_date does not raise; it returns the timestamp of the
\* last sample of a non-empty answer, and None for an empty answer or a
\* failed query.
C5_ProbeResult ==
    probeResp.kind # "none" =>
        /\ ~latest.raised
        /\ (probeResp.kind = "df" /\ Len(probeResp.index) > 0)
               => latest.value = probeResp.index[Len(probeResp.index)]
        /\ (probeResp.kind = "raise" \/ Len(probeResp.index) = 0)
               => latest.value = None

C5_Witness ==
    /\ pc = "unpack"
    /\ probeResp.kind = "df"
    /\ Len(probeResp.index) = 2
    /\ latest.value = probeResp.index[2]
    /\ latest.value # probeResp.index[1]

\* C6 as stated: the analysis query spans the 10 days that end at the
\* timestamp the probe returned.
C6_WindowEndsAtLatest ==
    window # <<>> => window = <<latest.value - 10 * Day, latest.value>>

\* C6 as the code has it: the analysis query starts 10 days before the
\* timestamp the probe returned and ends one hour after it, wherever the
\* current time lies.
C6_WindowAnchoredOnLatest ==
    window # <<>> =>
        /\ latest.value # None
        /\ window = <<latest.value - 10 * Day, latest.value + Hour>>

C6_Witness ==
    /\ window # <<>>
    /\ latest.value < Now
    /\ window[2] < Now
    /\ outcome[countries[i]] = "ok"

\* C9: when the output directory cannot be created the process exits with a
\* failure status and no country is probed, analysed or plotted; and no other
\* failure ends the run with a failure status.
C9_OnlyMkdirIsFatal ==
    /\ mkdirFailed =>
          /\ pc = "exited"
          /\ exitStatus = 1
          /\ probeResp.kind = "none"
          /\ \A c \in Range(countries) : outcome[c] = "pending"
          /\ plotted = {} /\ results = {}
    /\ (exitStatus # NoStatus /\ exitStatus # 0) => mkdirFailed

\* the first half of C9 alone
C9_MkdirFailureExits ==
    mkdirFailed =>
        /\ pc = "exited"
        /\ exitStatus = 1
        /\ probeResp.kind = "none"
        /\ \A c \in Range(countries) : outcome[c] = "pending"
        /\ plotted = {} /\ results = {}

\* C10: a country whose query, aggregation and statistics succeeded gets the
\* three results back from analyze_country, and is plotted and recorded by
\* main, whatever the number of issues the quality check reported.
C10_QualityIsAdvisory ==
    /\ (pc \in {"unpack", "branch"} /\ outcome[countries[i]] = "ok") =>
          /\ ret = <<"df_agg", "df_share", "stats">>
          /\ nIssues[countries[i]] = Len(quality_issues)
    /\ \A c \in Handled : outcome[c] = "ok" => c \in plotted /\ c \in results

\* three countries plotted and recorded after zero, one and two issues
C10_Witness ==
    /\ \E c \in Handled : outcome[c] = "ok" /\ nIssues[c] = 0 /\ c \in plotted /\ c \in results
    /\ \E c \in Handled : outcome[c] = "ok" /\ nIssues[c] = 1 /\ c \in plotted /\ c \in results
    /\ \E c \in Handled : outcome[c] = "ok" /\ nIssues[c] > 1 /\ c \in plotted /\ c \in results

----------------------------------------------------------------------------
(* The plant mapper: load_and_filter_data.  A plant table is a sequence of *)
(* rows, the position of a row being its index label; an empty CSV field   *)
(* is read as missing: "" for a text column, NaN for a coordinate.         *)

plant_countries == <<"Spain", "France", "Germany", "Italy">>

renewable_fuels == <<"Solar", "Wind">>

keeps_without_latitude(row) ==
    /\ row.country_long \in Range(plant_countries)
    /\ row.primary_fuel \in Range(renewable_fuels)
    /\ row.longitude # NaN

\* the boolean mask of lines 38-43
keeps(row) ==
    /\ row.country_long \in Range(plant_countries)
    /\ row.primary_fuel \in Range(renewable_fuels)
    /\ row.latitude # NaN
    /\ row.longitude # NaN

RECURSIVE FilterFrom(_, _)
FilterFrom(df, k) ==
    IF k > Len(df) THEN <<>>
    ELSE (IF keeps(df[k])
          THEN << [index |-> k,
                   country_long |-> df[k].country_long,
                   primary_fuel |-> df[k].primary_fuel,
                   latitude |-> df[k].latitude,
                   longitude |-> df[k].longitude,
                   country_name |-> df[k].country_long] >>
          ELSE <<>>) \o FilterFrom(df, k + 1)

load_and_filter_data(df) == FilterFrom(df, 1)

PlantRows ==
    [country_long : {"Spain", "France", "Germany", "Italy", "Portugal", ""},
     primary_fuel : {"Solar", "Wind", "Hydro"},
     latitude : {NaN, 40},
     longitude : {NaN, 3}]

PlantTables == UNION {[1..n -> PlantRows] : n \in 1..MaxPlants}

InitPlants ==
    /\ MainIdle
    /\ stage = "load"
    /\ df_gen = EmptyTable
    /\ df_agg = EmptyTable
    /\ df_share = EmptyTable
    /\ stats = NoStats
    /\ quality_issues = <<>>
    /\ plants \in PlantTables
    /\ renewable_plants = <<>>

LoadAndFilter ==
    /\ stage = "load"
    /\ renewable_plants' = load_and_filter_data(plants)
    /\ stage' = "filtered"
    /\ UNCHANGED <<plants, df_gen, df_agg, df_share, stats, quality_issues>>
    /\ UNCHANGED mainVars

NextPlants == LoadAndFilter

SpecPlants == InitPlants /\ [][NextPlants]_vars

C8_Wanted(row) ==
    /\ row.country_long \in {"Spain", "France", "Germany", "Italy"}
    /\ row.primary_fuel \in {"Solar", "Wind"}
    /\ row.latitude # NaN
    /\ row.longitude # NaN

\* C8: load_and_filter_data returns exactly the rows of a target country with
\* fuel Solar or Wind and both coordinates present: each such row once, with
\* its fields unchanged, and no other row.
C8_ExactFilter ==
    stage = "filtered" =>
        /\ \A k \in 1..Len(plants) :
              Cardinality({m \in 1..Len(renewable_plants) : renewable_plants[m].index = k})
                  = (IF C8_Wanted(plants[k]) THEN 1 ELSE 0)
        /\ \A m \in 1..Len(renewable_plants) :
              LET out == renewable_plants[m] IN
              /\ out.index \in 1..Len(plants)
              /\ out.country_long = plants[out.index].country_long
              /\ out.primary_fuel = plants[out.index].primary_fuel
              /\ out.latitude = plants[out.index].latitude
              /\ out.longitude = plants[out.index].longitude

\* a Solar plant with missing latitude is left out, the Wind plant next to it kept
C8_Witness ==
    /\ stage = "filtered"
    /\ Len(plants) = 2
    /\ plants[1].primary_fuel = "Solar" /\ plants[1].country_long = "Spain"
    /\ plants[1].latitude = NaN /\ plants[1].longitude # NaN
    /\ C8_Wanted(plants[2])
    /\ Len(renewable_plants) = 1
    /\ renewable_plants[1].index = 2

====
